---- MODULE Spec2Model ----
(***************************************************************************)
(* Chat client over a document database: single-chat de-duplication,       *)
(* reaction maps, reply counters, lastMessageTimestamp, the file probe of  *)
(* getMessages, the edits of a message document and the stub AuthService.  *)
(* The document database is modelled as last-write-wins documents; every   *)
(* backend call of the services is a step of its own, so that calls of     *)
(* several browser sessions interleave.                                    *)
(***************************************************************************)
EXTENDS Integers, Sequences, FiniteSets, TLC

(* ------------------------------------------------------------------ *)
(* Bounds and fixed sets                                               *)
(* ------------------------------------------------------------------ *)

\* number of createChat calls one run starts (bounds the chats collection)
MaxCalls == 3

\* longest userIds list of the reaction maps createReactionUpdate is tried on
MaxBucket == 2

\* updates one session can have on the way to the database at a time
MaxPending == 2

\* addReaction calls one run makes
MaxReacts == 3

\* sendMessage calls one run makes (bounds the messages documents)
MaxSends == 2

\* updates sent for the message document in one run
MaxDocOps == 2

\* calls made on the AuthService in one run
MaxAuthCalls == 4

\* browser sessions, each with its own services and components
Clients == {1, 2}

\* the two fixed identities of the stub auth: 1 is 'user1', 2 is 'user2'
DummyUsers == {1, 2}

\* user ids that can be passed as chat participants: 'user1', 'user2';
\* the numeric order is the string order Array.prototype.sort uses
ParticipantIds == DummyUsers

\* participant lists createChat is called with
ParticipantLists == ParticipantIds \X ParticipantIds

ChatIds == 1 .. MaxCalls

\* two of the predefined emojis of ChatComponent.emojis
Emojis == {1, 2}

\* chat ids messages are sent to: the document of chat 1 exists, chat 2 is
\* an id without a chat document (as the default 'test-chat')
SendChats == {1, 2}

\* message ids: the message that is there from the start, and those sent
MsgIds == 1 .. (MaxSends + 1)

\* an optional value that is not given (undefined)
None == 0

VARIABLES
    chats,        \* the chats collection: document id -> chat data
    cc,           \* per session: the createChat call in progress
    ccStarted,    \* number of createChat calls started so far
    ccOverlap     \* history: two single-chat calls were in flight together

chatVars == <<chats, cc, ccStarted, ccOverlap>>

VARIABLES
    pIn,          \* createReactionUpdate alone: the message's reaction map
    pUser,        \* ... the acting user (currentUserId)
    pEmoji,       \* ... the target emoji
    pOut,         \* ... what the call returned and left behind
    pDone         \* ... whether the call has been made

pureVars == <<pIn, pUser, pEmoji, pOut, pDone>>

VARIABLES
    stored,       \* the reactions field of the message document
    view,         \* per session: the reactions of its local message object
    cur,          \* per session: the current user of its AuthService
    pending,      \* per session: its updates on the way to the database
    landed,       \* history: the last two updates that reached the document
    reacts        \* number of addReaction calls made so far

reactVars == <<stored, view, cur, pending, landed, reacts>>

VARIABLES
    msgs,         \* the messages documents: id -> message data
    lastTs,       \* per chat id: lastMessageTimestamp of the chat document
    clock,        \* what new Date() returns next
    snd,          \* per session: the sendMessage call in progress
    sends,        \* number of sendMessage calls made so far
    sndOverlap,   \* history: two replies to one parent were in flight together
    rcFailed,     \* history: a reply-counter update has failed
    tsFailed      \* history: an update of lastMessageTimestamp has failed

sendVars ==
    <<msgs, lastTs, clock, snd, sends, sndOverlap, rcFailed, tsFailed>>

VARIABLES
    mdoc,         \* one message document with all its fields
    seen,         \* per session: the snapshot valueChanges delivered last
    shown,        \* per session: the message object getMessages emitted last
    probe,        \* per session: the getMetadata call of checkFileExistence:
                  \* idle, pending, exists, or the error it was rejected with
    editing,      \* per session: editingMessage is set
    dialog,       \* per session: data.message of the open MessageDialog
    lastWrite,    \* history: the last update sent for the document
    wasDeleted    \* history: the stored fileDeleted flag has been true

docVars == <<mdoc, seen, shown, probe, editing, dialog, lastWrite, wasDeleted>>

VARIABLES
    currentUserIndex,  \* AuthService.currentUserIndex
    userSubject,       \* the value held by AuthService._user
    currentUserId,     \* ChatComponent.currentUserId, set by its subscription
    authLog,           \* history: the calls made on the AuthService
    sendPath           \* history: how the last handleSendMessage went on

authVars == <<currentUserIndex, userSubject, currentUserId, authLog, sendPath>>

VARIABLES
    input,         \* ChatComponent: newMessage, selectedFile, fileUrl, fileName
    replyTarget,   \* history: the message replyToMessage was last called with
    sent,          \* the sendMessage calls the chat view has made, in order
    posted,        \* the messages these calls have persisted
    parentReplies  \* the replies counter of each message that can be replied to

composeVars == <<input, replyTarget, sent, posted, parentReplies>>

VARIABLES
    chatOrder,         \* the chat ids in the order getChats emits them
    members,           \* the participants of each chat
    tmsgs,             \* the messages of each chat in timestamp order
    selectedChatId,    \* AppComponent.selectedChatId: the chat that is open
    selectedMessageId, \* AppComponent.selectedMessageId, the sidebar's input
    subs,              \* the subscriptions loadThreadMessages has made
    originalMessage,   \* what originalMessage$ holds
    messagesShown,     \* what messages$ holds
    lastReaction       \* history: the document the last addReaction of the
                       \* thread sidebar and of the chat view went to

threadVars == <<chatOrder, members, tmsgs, selectedChatId, selectedMessageId,
                subs, originalMessage, messagesShown, lastReaction>>

VARIABLES
    replyDocs,    \* number of persisted messages whose replyTo is the message
    replySends,   \* number of sendMessage calls made with that replyTo
    rc            \* per session: the updateReplyCount call on the way

countVars == <<replyDocs, replySends, rc>>

VARIABLES
    switched      \* history, per session: the timestamp of the sendMessage
                  \* call that was pending when switchUser was called last

switchVars == <<switched>>

VARIABLES
    dialogOpen,     \* the create-chat dialog is open
    newChatType,    \* CreateChatDialogComponent.newChatType
    selectedUsers,  \* CreateChatDialogComponent.selectedUsers
    chatName,       \* CreateChatDialogComponent.chatName
    results,        \* the values afterClosed() has emitted, in order
    lookups,        \* the getUser subscriptions of createSingleChat
    creates,        \* the createChat calls the sidebar has made
    selections      \* the chat ids selectChat has emitted after a creation

createVars == <<dialogOpen, newChatType, selectedUsers, chatName, results,
                lookups, creates, selections>>

\* the state of the services and of the handlers that write documents
coreVars == <<chatVars, pureVars, reactVars, sendVars, docVars, authVars>>

\* the state of the components around them
uiVars == <<composeVars, threadVars, countVars, switchVars, createVars>>

vars == <<coreVars, uiVars>>

nonComposeVars == <<coreVars, threadVars, countVars, switchVars, createVars>>
nonThreadVars == <<coreVars, composeVars, countVars, switchVars, createVars>>
nonCountVars == <<chatVars, pureVars, reactVars, sendVars, authVars,
                  composeVars, threadVars, switchVars, createVars>>
nonCreateVars == <<coreVars, composeVars, threadVars, countVars, switchVars>>

nonChatVars == <<pureVars, reactVars, sendVars, docVars, authVars, uiVars>>
nonPureVars == <<chatVars, reactVars, sendVars, docVars, authVars, uiVars>>
nonReactVars == <<chatVars, pureVars, sendVars, docVars, authVars, uiVars>>
nonSendVars == <<chatVars, pureVars, reactVars, docVars, authVars, uiVars>>
nonDocVars == <<chatVars, pureVars, reactVars, sendVars, authVars, uiVars>>
nonAuthVars == <<chatVars, pureVars, reactVars, sendVars, docVars, uiVars>>

(* ------------------------------------------------------------------ *)
(* Helpers                                                             *)
(* ------------------------------------------------------------------ *)

Min(S) == CHOOSE x \in S : \A y \in S : x <= y

Range(s) == {s[i] : i \in DOMAIN s}

\* f extended by the pair k |-> v
Put(f, k, v) == [x \in DOMAIN f \cup {k} |-> IF x = k THEN v ELSE f[x]]

\* f without the keys in K
Without(f, K) == [x \in DOMAIN f \ K |-> f[x]]

RECURSIVE Insert(_, _)
Insert(s, x) ==
    IF s = <<>> THEN <<x>>
    ELSE IF x < Head(s) THEN <<x>> \o s
    ELSE <<Head(s)>> \o Insert(Tail(s), x)

RECURSIVE SortIds(_)
\* Array.prototype.sort() on a list of ids
SortIds(s) == IF s = <<>> THEN <<>> ELSE Insert(SortIds(Tail(s)), Head(s))

(* ------------------------------------------------------------------ *)
(* MessageService.createChat                                           *)
(* ------------------------------------------------------------------ *)

\* arg is the list as the caller passed it, added the ids of the documents
\* the call has added (both kept for the properties only)
IdleCall == [pc |-> "idle", type |-> "none", participants |-> <<>>,
             arg |-> <<>>, qres |-> {}, result |-> None, added |-> {}]

\* variant: the list is used in the order given
UnsortedParticipants(p) == p

\* the list the where('participants', '==', ...) filter is built from:
\* participants.sort() sorts the caller's array in place
QueryParticipants(p) == SortIds(p)

\* createChatData: the document addNewChat adds
createChatData(type, participants) ==
    [type |-> type, participants |-> participants]

\* the ids of the documents the single-chat lookup query returns
SingleChatQuery(cs, participants) ==
    {id \in DOMAIN cs : cs[id].type = "single"
                        /\ cs[id].participants = participants}

InFlightSingle(c) ==
    cc[c].type = "single" /\ cc[c].pc \in {"query", "handle", "add"}

\* createChat(type, participants): a single chat starts the lookup query,
\* a group chat goes straight to addNewChat
createChat(c, type, p) ==
    /\ cc[c].pc = "idle"
    /\ ccStarted < MaxCalls
    /\ ccStarted' = ccStarted + 1
    /\ IF type = "single"
       THEN /\ cc' = [cc EXCEPT ![c] = [IdleCall EXCEPT
                          !.pc = "query", !.type = type, !.arg = p,
                          !.participants = QueryParticipants(p)]]
            /\ ccOverlap' = (ccOverlap
                              \/ \E d \in Clients \ {c} : InFlightSingle(d))
       ELSE /\ cc' = [cc EXCEPT ![c] = [IdleCall EXCEPT
                          !.pc = "add", !.type = type, !.arg = p,
                          !.participants = p]]
            /\ UNCHANGED ccOverlap
    /\ UNCHANGED <<chats, nonChatVars>>

\* the lookup query of createSingleChat is evaluated against the collection
RunSingleChatQuery(c) ==
    /\ cc[c].pc = "query"
    /\ cc' = [cc EXCEPT ![c].pc = "handle",
                        ![c].qres = SingleChatQuery(chats, cc[c].participants)]
    /\ UNCHANGED <<chats, ccStarted, ccOverlap, nonChatVars>>

\* variant: the snapshot is ignored and a chat is always added
ReuseNever(qres) == FALSE

\* handleSingleChatQuery: reuse docs[0] of a non-empty snapshot, else add
Reuses(qres) == qres # {}

FirstDoc(qres) == Min(qres)

handleSingleChatQuery(c) ==
    /\ cc[c].pc = "handle"
    /\ IF Reuses(cc[c].qres)
       THEN cc' = [cc EXCEPT ![c].pc = "done",
                             ![c].result = FirstDoc(cc[c].qres)]
       ELSE cc' = [cc EXCEPT ![c].pc = "add"]
    /\ UNCHANGED <<chats, ccStarted, ccOverlap, nonChatVars>>

\* addNewChat: the add reaches the collection under a fresh document id
addNewChat(c) ==
    /\ cc[c].pc = "add"
    /\ \E id \in ChatIds \ DOMAIN chats :
         /\ chats' = Put(chats, id,
                         createChatData(cc[c].type, cc[c].participants))
         /\ cc' = [cc EXCEPT ![c].pc = "done", ![c].result = id,
                             ![c].added = @ \cup {id}]
    /\ UNCHANGED <<ccStarted, ccOverlap, nonChatVars>>

\* the promise of createChat has been delivered to its caller
CreateChatReturns(c) ==
    /\ cc[c].pc = "done"
    /\ cc' = [cc EXCEPT ![c] = IdleCall]
    /\ UNCHANGED <<chats, ccStarted, ccOverlap, nonChatVars>>

\* the chats collection is empty and no call is in progress
ChatsAtRest ==
    /\ chats = <<>>
    /\ cc = [c \in Clients |-> IdleCall]
    /\ ccStarted = 0
    /\ ccOverlap = FALSE

(* ------------------------------------------------------------------ *)
(* ChatComponent.createReactionUpdate                                  *)
(* ------------------------------------------------------------------ *)

\* A reaction map is a function from the emojis that have a bucket to the
\* bucket's userIds list.  A message without a reactions field behaves as
\* the empty map (message.reactions ? {...} : {}).
EmptyMap == <<>>

Includes(s, u) == u \in Range(s)

\* userIds.filter((id) => id !== currentUserId)
FilterOut(s, u) == SelectSeq(s, LAMBDA x : x # u)

\* variant: no removal of the user's earlier reaction
KeepUser(m, u) == m

\* The removal loop as the buckets see it.  The spread copies the map but
\* not its buckets, so the filtered list is assigned to the bucket object
\* that the message passed in still holds.
RemoveUser(m, u) ==
    [k \in DOMAIN m |-> IF Includes(m[k], u) THEN FilterOut(m[k], u) ELSE m[k]]

\* the keys the loop deletes, from the copy only: buckets that held the
\* user and are empty after the filter
DeletedKeys(m, u) ==
    {k \in DOMAIN m : Includes(m[k], u) /\ FilterOut(m[k], u) = <<>>}

\* the copy after the removal loop
AfterRemoval(m, u) == Without(RemoveUser(m, u), DeletedKeys(m, u))

\* variant: the push onto an existing bucket is missing
AddUserNewBucketOnly(copy, u, e) ==
    IF e \in DOMAIN copy THEN copy ELSE Put(copy, e, <<u>>)

\* adding the new reaction: push onto the existing bucket, else a new one
AddUser(copy, u, e) ==
    IF e \in DOMAIN copy
    THEN [copy EXCEPT ![e] = Append(@, u)]
    ELSE Put(copy, e, <<u>>)

\* createReactionUpdate(message, emoji) for currentUserId u:
\*   written  the reactions of the object it returns
\*   local    the reactions of the message passed in, after the call (the
\*            push goes to a bucket shared with it, a new bucket does not)
createReactionUpdate(m, u, e) ==
    LET copy == AfterRemoval(m, u)
        left == RemoveUser(m, u)
    IN  [written |-> AddUser(copy, u, e),
         local   |-> IF e \in DOMAIN copy
                     THEN [left EXCEPT ![e] = Append(@, u)]
                     ELSE left]

UserLists == UNION {[1 .. n -> DummyUsers] : n \in 0 .. MaxBucket}

ReactionMaps == UNION {[K -> UserLists] : K \in SUBSET Emojis}

PureAtRest ==
    /\ pIn = EmptyMap
    /\ pUser = 1
    /\ pEmoji = 1
    /\ pOut = [written |-> EmptyMap, local |-> EmptyMap]
    /\ pDone = FALSE

\* one call of createReactionUpdate on the chosen input
CallCreateReactionUpdate ==
    /\ ~pDone
    /\ pDone' = TRUE
    /\ pOut' = createReactionUpdate(pIn, pUser, pEmoji)
    /\ UNCHANGED <<pIn, pUser, pEmoji, nonPureVars>>

(* ------------------------------------------------------------------ *)
(* ChatComponent.addReaction and MessageService.updateMessage          *)
(* ------------------------------------------------------------------ *)

\* One message document and the sessions that show it.  A session reacts
\* on the message object its last snapshot delivered; the update carries
\* the whole reactions map and replaces the field when it arrives.

\* variant: the buckets written are merged into the stored ones
MergeBuckets(old, new) ==
    [k \in DOMAIN old \cup DOMAIN new |->
        IF k \in DOMAIN new
        THEN new[k] \o (IF k \in DOMAIN old
                        THEN SelectSeq(old[k], LAMBDA x : ~Includes(new[k], x))
                        ELSE <<>>)
        ELSE old[k]]

\* doc.update({..., reactions}): the field takes the value written
DocUpdate(old, new) == new

\* what a snapshot shows a session: the document, with the session's own
\* updates that are still on the way applied on top
Visible(c) ==
    IF pending[c] = <<>> THEN stored
    ELSE DocUpdate(stored, pending[c][Len(pending[c])].reactions)

\* valueChanges emits: the session's message objects are replaced
MessagesEmitted(c) ==
    /\ view[c] # Visible(c)
    /\ view' = [view EXCEPT ![c] = Visible(c)]
    /\ UNCHANGED <<stored, cur, pending, landed, reacts, nonReactVars>>

\* addReaction(message, emoji): the guards on message.id, currentUserId and
\* selectedChatId pass; updateMessage sends createReactionUpdate's object
addReaction(c, e) ==
    /\ Len(pending[c]) < MaxPending
    /\ reacts < MaxReacts
    /\ reacts' = reacts + 1
    /\ LET upd == createReactionUpdate(view[c], cur[c], e)
       IN  /\ pending' = [pending EXCEPT ![c] = Append(@,
                              [user |-> cur[c], emoji |-> e,
                               base |-> view[c], reactions |-> upd.written])]
           /\ view' = [view EXCEPT ![c] = upd.local]
    /\ UNCHANGED <<stored, cur, landed, nonReactVars>>

LastTwo(s) == IF Len(s) <= 2 THEN s ELSE SubSeq(s, Len(s) - 1, Len(s))

\* the oldest update of a session reaches the document
UpdateArrives(c) ==
    /\ pending[c] # <<>>
    /\ stored' = DocUpdate(stored, Head(pending[c]).reactions)
    /\ landed' = LastTwo(Append(landed, [user |-> Head(pending[c]).user,
                                         emoji |-> Head(pending[c]).emoji,
                                         base |-> Head(pending[c]).base]))
    /\ pending' = [pending EXCEPT ![c] = Tail(@)]
    /\ UNCHANGED <<view, cur, reacts, nonReactVars>>

\* the update is rejected: updateMessage logs and rethrows, addReaction
\* logs; nothing is written
UpdateRejected(c) ==
    /\ pending[c] # <<>>
    /\ pending' = [pending EXCEPT ![c] = Tail(@)]
    /\ UNCHANGED <<stored, view, cur, landed, reacts, nonReactVars>>

\* AuthService.switchUser: (currentUserIndex + 1) % dummyUsers.length
NextUser(u) == (u % Cardinality(DummyUsers)) + 1

switchUser(c) ==
    /\ cur' = [cur EXCEPT ![c] = NextUser(@)]
    /\ switched' = IF snd[c].pc \in {"upload", "add"}
                   THEN [switched EXCEPT ![c] = snd[c].ts]
                   ELSE switched
    /\ UNCHANGED <<stored, view, pending, landed, reacts>>
    /\ UNCHANGED <<chatVars, pureVars, sendVars, docVars, authVars,
                   composeVars, threadVars, countVars, createVars>>

\* a message without reactions, shown by every session; user1 is current
ReactAtRest ==
    /\ stored = EmptyMap
    /\ view = [c \in Clients |-> EmptyMap]
    /\ cur = [c \in Clients |-> 1]
    /\ pending = [c \in Clients |-> <<>>]
    /\ landed = <<>>
    /\ reacts = 0

(* ------------------------------------------------------------------ *)
(* MessageService.sendMessage                                          *)
(* ------------------------------------------------------------------ *)

\* what a started send remembers; before, after, intervened and failure are
\* kept for the properties only:
\*   before      the parent's counter when the reply was persisted
\*   after       the parent's counter right after this send's write
\*   intervened  another write reached the parent in between
\*   failure     why the reply-counter update failed, if it did
IdleSend == [pc |-> "idle", user |-> None,
             chat |-> None, replyTo |-> None, file |-> FALSE,
             ts |-> None, msgId |-> None, result |-> "none",
             tsPc |-> "off", rcPc |-> "off", rcRead |-> None,
             before |-> None, after |-> None, intervened |-> FALSE,
             failure |-> "no"]

\* the send and what it started in the background have all ended
AtRest(c) ==
    /\ snd[c].pc \in {"idle", "done"}
    /\ snd[c].tsPc \in {"off", "end"}
    /\ snd[c].rcPc \in {"off", "end"}

\* createMessageData, with the chat the document is added to.  replies is
\* absent from a new message (<<>>); content, fileUrl, fileName and fileSize
\* are stored as given and read by none of the steps below, so they are
\* left out.
createMessageData(user, timestamp, replyTo, chat) ==
    [chat |-> chat, senderId |-> user, timestamp |-> timestamp,
     fileDeleted |-> FALSE, deleted |-> FALSE,
     replyTo |-> replyTo, replies |-> <<>>]

\* message.replies || 0
RepliesOrZero(doc) == IF doc.replies = <<>> THEN 0 ELSE doc.replies[1]

\* variant: the counter is set to 1 whatever was read
ReplyCountOfOne(read) == 1

\* const newReplyCount = (message.replies || 0) + 1
NewReplyCount(read) == read + 1

\* doc(`chats/${chatId}/messages/${messageId}`) exists
MessageExists(chat, id) == id \in DOMAIN msgs /\ msgs[id].chat = chat

\* whether updateReplyCount is started when the call is made, and after the
\* add has resolved (if (replyTo) this.updateReplyCount(...))
ReplyCountAtCall(replyTo) == "off"
\* (variant: updateReplyCount is never started)
ReplyCountNever(replyTo) == "off"
ReplyCountAfterAdd(replyTo) == IF replyTo # None THEN "get" ELSE "off"

\* variant: the then callback returns updateReplyCount's promise
RejectedByReplyCount(result) == "rejected"

\* the promise of sendMessage once updateReplyCount has failed: the then
\* callback neither returns nor awaits updateReplyCount's promise
ResultAfterReplyCountFailure(result) == result

\* variant: the user that is current when the add is made
UserAtAdd(atCall, current) == current

\* the user first() took from auth.user when sendMessage was called; it is
\* passed on as firebaseUser down to createMessageData
FirebaseUser(atCall, current) == atCall

\* sendMessage -> handleSendMessage -> handleMessageData: the current user
\* is taken, the timestamp is new Date(), a file is uploaded first.  A
\* reply names a message that is there, in this chat or in another one.
sendMessage(c, chat, file, replyTo) ==
    /\ snd[c].pc = "idle"
    /\ replyTo = None \/ replyTo \in DOMAIN msgs
    /\ sends < MaxSends
    /\ sends' = sends + 1
    /\ clock' = clock + 1
    /\ snd' = [snd EXCEPT ![c] = [IdleSend EXCEPT
                  !.pc = IF file THEN "upload" ELSE "add",
                  !.user = cur[c],
                  !.chat = chat, !.replyTo = replyTo, !.file = file,
                  !.ts = clock, !.result = "pending",
                  !.rcPc = ReplyCountAtCall(replyTo)]]
    /\ sndOverlap' = (sndOverlap
                       \/ \E d \in Clients \ {c} :
                            /\ ~AtRest(d)
                            /\ replyTo # None
                            /\ snd[d].replyTo = replyTo
                            /\ snd[d].chat = chat)
    /\ UNCHANGED <<msgs, lastTs, rcFailed, tsFailed,
                   nonSendVars>>

\* storage.upload and getDownloadURL have succeeded
UploadDone(c) ==
    /\ snd[c].pc = "upload"
    /\ snd' = [snd EXCEPT ![c].pc = "add"]
    /\ UNCHANGED <<msgs, lastTs, clock, sends, sndOverlap, rcFailed,
                   tsFailed, nonSendVars>>

\* the upload is rejected: the promise of sendMessage rejects
UploadFails(c) ==
    /\ snd[c].pc = "upload"
    /\ snd' = [snd EXCEPT ![c].pc = "done", ![c].result = "rejected"]
    /\ UNCHANGED <<msgs, lastTs, clock, sends, sndOverlap, rcFailed,
                   tsFailed, nonSendVars>>

\* addMessageToFirestore: the add has resolved; its then callback starts
\* updateLastMessageTimestamp and, for a reply, updateReplyCount, and
\* returns the document reference
addMessageToFirestore(c) ==
    /\ snd[c].pc = "add"
    /\ LET id == Cardinality(DOMAIN msgs) + 1
           s == snd[c]
       IN  /\ msgs' = Put(msgs, id,
                          createMessageData(FirebaseUser(s.user, cur[c]),
                                            s.ts, s.replyTo, s.chat))
           /\ snd' = [snd EXCEPT ![c].pc = "done", ![c].msgId = id,
                        ![c].result = "resolved", ![c].tsPc = "get",
                        ![c].rcPc = ReplyCountAfterAdd(s.replyTo),
                        ![c].before = IF MessageExists(s.chat, s.replyTo)
                                      THEN RepliesOrZero(msgs[s.replyTo])
                                      ELSE None]
    /\ UNCHANGED <<lastTs, clock, sends, sndOverlap, rcFailed, tsFailed,
                   nonSendVars>>

\* variant: the document is stored although the promise rejects
AddFailsAfterStoring(c) ==
    /\ snd[c].pc = "add"
    /\ msgs' = Put(msgs, Cardinality(DOMAIN msgs) + 1,
                   createMessageData(FirebaseUser(snd[c].user, cur[c]),
                                     snd[c].ts, snd[c].replyTo, snd[c].chat))
    /\ snd' = [snd EXCEPT ![c].pc = "done", ![c].result = "rejected"]
    /\ UNCHANGED <<lastTs, clock, sends, sndOverlap, rcFailed, tsFailed,
                   nonSendVars>>

\* the add is rejected: logged, and the promise of sendMessage rejects
AddFails(c) ==
    /\ snd[c].pc = "add"
    /\ snd' = [snd EXCEPT ![c].pc = "done", ![c].result = "rejected"]
    /\ UNCHANGED <<msgs, lastTs, clock, sends, sndOverlap, rcFailed,
                   tsFailed, nonSendVars>>

\* updateLastMessageTimestamp, the read: go on if the chat document exists
ReadChat(c) ==
    /\ snd[c].tsPc = "get"
    /\ snd' = [snd EXCEPT ![c].tsPc =
                  IF lastTs[snd[c].chat] # <<>> THEN "update" ELSE "end"]
    /\ UNCHANGED <<msgs, lastTs, clock, sends, sndOverlap, rcFailed,
                   tsFailed, nonSendVars>>

\* updateLastMessageTimestamp, the write
WriteLastMessageTimestamp(c) ==
    /\ snd[c].tsPc = "update"
    /\ lastTs' = [lastTs EXCEPT ![snd[c].chat] = <<snd[c].ts>>]
    /\ snd' = [snd EXCEPT ![c].tsPc = "end"]
    /\ UNCHANGED <<msgs, clock, sends, sndOverlap, rcFailed, tsFailed,
                   nonSendVars>>

\* updateLastMessageTimestamp: the read or the write is rejected
LastMessageTimestampFails(c) ==
    /\ snd[c].tsPc \in {"get", "update"}
    /\ snd' = [snd EXCEPT ![c].tsPc = "end"]
    /\ tsFailed' = TRUE
    /\ UNCHANGED <<msgs, lastTs, clock, sends, sndOverlap, rcFailed,
                   nonSendVars>>

\* the failure of updateReplyCount: logged, its promise rejects
ReplyCountFailed(c, why) ==
    [snd EXCEPT ![c].rcPc = "end", ![c].failure = why,
                ![c].result = ResultAfterReplyCountFailure(snd[c].result)]

\* updateReplyCount, the read: the parent's data, or no such document
ReadParent(c) ==
    /\ snd[c].rcPc = "get"
    /\ IF MessageExists(snd[c].chat, snd[c].replyTo)
       THEN /\ snd' = [snd EXCEPT ![c].rcPc = "update",
                         ![c].rcRead = RepliesOrZero(msgs[snd[c].replyTo])]
            /\ UNCHANGED rcFailed
       ELSE /\ snd' = ReplyCountFailed(c, "missing")
            /\ rcFailed' = TRUE
    /\ UNCHANGED <<msgs, lastTs, clock, sends, sndOverlap, tsFailed,
                   nonSendVars>>

\* updateReplyCount, the write: update({ replies: newReplyCount })
WriteReplyCount(c) ==
    /\ snd[c].rcPc = "update"
    /\ LET p == snd[c].replyTo
           n == NewReplyCount(snd[c].rcRead)
       IN  /\ msgs' = [msgs EXCEPT ![p].replies = <<n>>]
           /\ snd' = [d \in Clients |->
                        IF d = c
                        THEN [snd[c] EXCEPT !.rcPc = "end", !.after = n]
                        ELSE IF snd[d].replyTo = p
                                /\ snd[d].chat = snd[c].chat
                                /\ snd[d].rcPc \in {"get", "update"}
                             THEN [snd[d] EXCEPT !.intervened = TRUE]
                             ELSE snd[d]]
    /\ UNCHANGED <<lastTs, clock, sends, sndOverlap, rcFailed, tsFailed,
                   nonSendVars>>

\* updateReplyCount: the read is rejected
ReadParentFails(c) ==
    /\ snd[c].rcPc = "get"
    /\ snd' = ReplyCountFailed(c, "read")
    /\ rcFailed' = TRUE
    /\ UNCHANGED <<msgs, lastTs, clock, sends, sndOverlap, tsFailed,
                   nonSendVars>>

\* updateReplyCount: the write is rejected
WriteReplyCountFails(c) ==
    /\ snd[c].rcPc = "update"
    /\ snd' = ReplyCountFailed(c, "write")
    /\ rcFailed' = TRUE
    /\ UNCHANGED <<msgs, lastTs, clock, sends, sndOverlap, tsFailed,
                   nonSendVars>>

\* the promise of sendMessage has been delivered and nothing is left to do
SendReturns(c) ==
    /\ snd[c].pc = "done"
    /\ AtRest(c)
    /\ snd' = [snd EXCEPT ![c] = IdleSend]
    /\ UNCHANGED <<msgs, lastTs, clock, sends, sndOverlap, rcFailed,
                   tsFailed, nonSendVars>>

\* no messages; the document of chat 1 exists, chat 2 has none
SendAtRest ==
    /\ msgs = <<>>
    /\ lastTs = [ch \in SendChats |-> IF ch = 1 THEN <<0>> ELSE <<>>]
    /\ clock = 1
    /\ snd = [c \in Clients |-> IdleSend]
    /\ sends = 0
    /\ sndOverlap = FALSE
    /\ rcFailed = FALSE
    /\ tsFailed = FALSE

(* ------------------------------------------------------------------ *)
(* One message document: getMessages, edits, reactions, MessageDialog  *)
(* ------------------------------------------------------------------ *)

\* A message of user1 with all the fields the steps below read or write.
\* Every session holds the message object its last emission delivered;
\* each handler spreads that object into what it sends ({ ...message }),
\* and doc.update sets every field the object sent has.

\* message contents: 1 is the text the message was sent with, 2 is what
\* an editor types into editedMessageContent
Contents == {1, 2}

\* why getMetadata is rejected
ProbeErrors == {"not-found", "other"}

\* createMessageData for a message of user1, with or without a file; the
\* optional replies and reactions are absent (<<>>)
MessageDocument(fileUrl) ==
    [senderId |-> 1, content |-> 1, fileUrl |-> fileUrl,
     fileDeleted |-> FALSE, deleted |-> FALSE,
     replies |-> <<>>, reactions |-> <<>>]

\* doc.update(obj): every field of obj replaces the stored one; a field
\* obj lacks is left as it is stored
UpdateFields(old, obj) ==
    [senderId |-> obj.senderId, content |-> obj.content,
     fileUrl |-> obj.fileUrl, fileDeleted |-> obj.fileDeleted,
     deleted |-> obj.deleted,
     replies |-> IF obj.replies = <<>> THEN old.replies ELSE obj.replies,
     reactions |-> IF obj.reactions = <<>> THEN old.reactions
                   ELSE obj.reactions]

\* checkFileExistence goes on to getMetadata:
\* not (!message.fileUrl || message.fileDeleted)
NeedsProbe(m) == m.fileUrl /\ ~m.fileDeleted

\* variant: only a not-found error marks the file as deleted
OnlyNotFound(why) == why = "not-found"

\* catchError(() => updateMessageFileDeleted(...)): the error is not looked at
ProbeErrorMeansDeleted(why) == TRUE

\* whether a rejected update meets a handler: updateMessage has a catch that
\* logs and rethrows and every caller of it has a catch of its own;
\* updateMessageFileDeleted drops the promise of update
RejectionCaught(kind) == kind # "fileDeleted"

\* an update for the document is sent by session c and, if it is not
\* rejected, stored
SendUpdate(c, kind, obj, ok) ==
    /\ lastWrite.n < MaxDocOps
    /\ mdoc' = IF ok THEN UpdateFields(mdoc, obj) ELSE mdoc
    /\ lastWrite' = [n |-> lastWrite.n + 1, kind |-> kind, user |-> cur[c],
                     sender |-> obj.senderId, ok |-> ok,
                     caught |-> ok \/ RejectionCaught(kind)]
    /\ wasDeleted' = (wasDeleted \/ mdoc'.fileDeleted)

\* the message object of the open dialog: the one shown when it was
\* opened, as long as no emission has replaced that object
DialogMessage(c) ==
    IF dialog[c].held = <<>> THEN shown[c][1] ELSE dialog[c].held[1]

\* an emission replaces the message objects of the list; an open dialog
\* keeps the object it was given
DialogKeeps(c) ==
    IF dialog[c].open /\ dialog[c].held = <<>>
    THEN [dialog EXCEPT ![c].held = shown[c]]
    ELSE dialog

\* getMessages: valueChanges delivers the document; checkFileExistence
\* returns it as it is, or starts getMetadata (switchMap drops a probe
\* that is still under way)
getMessages(c) ==
    /\ seen[c] # <<mdoc>>
    /\ seen' = [seen EXCEPT ![c] = <<mdoc>>]
    /\ IF NeedsProbe(mdoc)
       THEN /\ probe' = [probe EXCEPT ![c] = "pending"]
            /\ UNCHANGED <<shown, dialog>>
       ELSE /\ probe' = [probe EXCEPT ![c] = "idle"]
            /\ shown' = [shown EXCEPT ![c] = <<mdoc>>]
            /\ dialog' = DialogKeeps(c)
    /\ UNCHANGED <<mdoc, editing, lastWrite, wasDeleted, nonDocVars>>

\* getMetadata resolves: the message is emitted as delivered
ProbeSucceeds(c) ==
    /\ probe[c] = "pending"
    /\ probe' = [probe EXCEPT ![c] = "exists"]
    /\ shown' = [shown EXCEPT ![c] = seen[c]]
    /\ dialog' = DialogKeeps(c)
    /\ UNCHANGED <<mdoc, seen, editing, lastWrite, wasDeleted, nonDocVars>>

\* getMetadata is rejected: updateMessageFileDeleted sends
\* { ...message, fileDeleted: true } and that object is emitted
ProbeFails(c, why, ok) ==
    /\ probe[c] = "pending"
    /\ probe' = [probe EXCEPT ![c] = why]
    /\ dialog' = DialogKeeps(c)
    /\ IF ProbeErrorMeansDeleted(why)
       THEN LET updatedMessage == [seen[c][1] EXCEPT !.fileDeleted = TRUE]
            IN  /\ SendUpdate(c, "fileDeleted", updatedMessage, ok)
                /\ shown' = [shown EXCEPT ![c] = <<updatedMessage>>]
       ELSE /\ shown' = [shown EXCEPT ![c] = seen[c]]
            /\ UNCHANGED <<mdoc, lastWrite, wasDeleted>>
    /\ UNCHANGED <<seen, editing, nonDocVars>>

\* ChatComponent.addReaction on the message shown: updateMessage sends
\* { ...message, reactions: updatedReactions }; the buckets of the local
\* message are the ones createReactionUpdate has worked on
reactOnMessage(c, e, ok) ==
    /\ shown[c] # <<>>
    /\ LET m == shown[c][1]
           upd == createReactionUpdate(
                      IF m.reactions = <<>> THEN EmptyMap ELSE m.reactions[1],
                      cur[c], e)
       IN  /\ SendUpdate(c, "reaction",
                         [m EXCEPT !.reactions = <<upd.written>>], ok)
           /\ shown' = [shown EXCEPT ![c] =
                          IF m.reactions = <<>> THEN <<m>>
                          ELSE <<[m EXCEPT !.reactions = <<upd.local>>]>>]
    /\ UNCHANGED <<seen, probe, editing, dialog, nonDocVars>>

\* toggleEditMessage on the message shown, by its sender
toggleEditMessage(c) ==
    /\ shown[c] # <<>>
    /\ shown[c][1].senderId = cur[c]
    /\ editing' = [editing EXCEPT ![c] = ~@]
    /\ UNCHANGED <<mdoc, seen, shown, probe, dialog, lastWrite, wasDeleted,
                   nonDocVars>>

\* ChatComponent.updateMessage: past the sender guard and with
\* editingMessage set, { ...message, content, deleted: false } is sent
updateMessage(c, content, ok) ==
    /\ shown[c] # <<>>
    /\ shown[c][1].senderId = cur[c]
    /\ editing[c]
    /\ editing' = [editing EXCEPT ![c] = FALSE]
    /\ SendUpdate(c, "edit", [shown[c][1] EXCEPT !.content = content,
                                                 !.deleted = FALSE], ok)
    /\ UNCHANGED <<seen, shown, probe, dialog, nonDocVars>>

\* ChatComponent.deleteFile: past the sender guard,
\* { ...message, fileDeleted: true } is sent
deleteFile(c, ok) ==
    /\ shown[c] # <<>>
    /\ shown[c][1].senderId = cur[c]
    /\ SendUpdate(c, "deleteFile", [shown[c][1] EXCEPT !.fileDeleted = TRUE],
                  ok)
    /\ UNCHANGED <<seen, shown, probe, editing, dialog, nonDocVars>>

\* openMessageDialog: past the sender guard the dialog is opened with
\* data.message = message
openMessageDialog(c) ==
    /\ shown[c] # <<>>
    /\ shown[c][1].senderId = cur[c]
    /\ ~dialog[c].open
    /\ dialog' = [dialog EXCEPT ![c] = [open |-> TRUE, held |-> <<>>]]
    /\ UNCHANGED <<mdoc, seen, shown, probe, editing, lastWrite, wasDeleted,
                   nonDocVars>>

\* the dialog is closed: dialogRef.close()
DialogClosed(c) == [dialog EXCEPT ![c] = [open |-> FALSE, held |-> <<>>]]

\* MessageDialogComponent.updateMessage: { ...data.message, content,
\* deleted: false } is sent; the dialog closes when the update resolves
dialogUpdateMessage(c, content, ok) ==
    /\ dialog[c].open
    /\ SendUpdate(c, "edit", [DialogMessage(c) EXCEPT !.content = content,
                                                      !.deleted = FALSE], ok)
    /\ dialog' = IF ok THEN DialogClosed(c) ELSE dialog
    /\ UNCHANGED <<seen, shown, probe, editing, nonDocVars>>

\* MessageDialogComponent.deleteFile: { ...data.message, fileDeleted: true }
dialogDeleteFile(c, ok) ==
    /\ dialog[c].open
    /\ SendUpdate(c, "deleteFile",
                  [DialogMessage(c) EXCEPT !.fileDeleted = TRUE], ok)
    /\ dialog' = IF ok THEN DialogClosed(c) ELSE dialog
    /\ UNCHANGED <<seen, shown, probe, editing, nonDocVars>>

\* MessageDialogComponent.cancel
cancel(c) ==
    /\ dialog[c].open
    /\ dialog' = DialogClosed(c)
    /\ UNCHANGED <<mdoc, seen, shown, probe, editing, lastWrite, wasDeleted,
                   nonDocVars>>

\* updateReplyCount for a reply a session has sent to the message:
\* update({ replies: (message.replies || 0) + 1 })
updateReplyCount(c) ==
    /\ lastWrite.n < MaxDocOps
    /\ mdoc' = [mdoc EXCEPT !.replies = <<NewReplyCount(RepliesOrZero(mdoc))>>]
    /\ lastWrite' = [n |-> lastWrite.n + 1, kind |-> "replies",
                     user |-> cur[c], sender |-> cur[c], ok |-> TRUE,
                     caught |-> TRUE]
    /\ UNCHANGED <<seen, shown, probe, editing, dialog, wasDeleted,
                   nonDocVars>>

\* the message as it was sent, with a file; no session has got it yet
DocAtRest ==
    /\ mdoc = MessageDocument(TRUE)
    /\ seen = [c \in Clients |-> <<>>]
    /\ shown = [c \in Clients |-> <<>>]
    /\ probe = [c \in Clients |-> "idle"]
    /\ editing = [c \in Clients |-> FALSE]
    /\ dialog = [c \in Clients |-> [open |-> FALSE, held |-> <<>>]]
    /\ lastWrite = [n |-> 0, kind |-> "none", user |-> None, sender |-> None,
                    ok |-> TRUE, caught |-> TRUE]
    /\ wasDeleted = FALSE

(* ------------------------------------------------------------------ *)
(* AuthService                                                         *)
(* ------------------------------------------------------------------ *)

\* One AuthService and the ChatComponent subscribed to its user stream.

\* dummyUsers[i].uid: index 0 holds 'user1', index 1 holds 'user2'
dummyUsers(i) == i + 1

\* variant: the index is left where it is
KeepCurrentUserIndex(i) == i

\* updateCurrentUserIndex: (currentUserIndex + 1) % dummyUsers.length
updateCurrentUserIndex(i) == (i + 1) % Cardinality(DummyUsers)

\* _user.next(value): the BehaviorSubject holds the value and the
\* subscription of the ChatComponent has run before next returns
updateUserSubject(value) ==
    /\ userSubject' = value
    /\ currentUserId' = value

\* the call is noted with the user before and after it
AuthCallNoted(op) ==
    authLog' = Append(authLog, [op |-> op, before |-> userSubject,
                                after |-> userSubject'])

\* AuthService.switchUser: updateCurrentUserIndex, then updateUserSubject
authSwitchUser ==
    /\ Len(authLog) < MaxAuthCalls
    /\ currentUserIndex' = updateCurrentUserIndex(currentUserIndex)
    /\ updateUserSubject(dummyUsers(currentUserIndex'))
    /\ AuthCallNoted("switchUser")
    /\ UNCHANGED <<sendPath, nonAuthVars>>

\* googleSignIn: return Promise.resolve()
googleSignIn ==
    /\ Len(authLog) < MaxAuthCalls
    /\ UNCHANGED <<currentUserIndex, userSubject, currentUserId>>
    /\ AuthCallNoted("googleSignIn")
    /\ UNCHANGED <<sendPath, nonAuthVars>>

\* variant: signing out clears the user, _user.next(null)
signOutClearsUser ==
    /\ Len(authLog) < MaxAuthCalls
    /\ updateUserSubject(None)
    /\ AuthCallNoted("signOut")
    /\ UNCHANGED <<currentUserIndex, sendPath, nonAuthVars>>

\* signOut: return Promise.resolve()
signOut ==
    /\ Len(authLog) < MaxAuthCalls
    /\ UNCHANGED <<currentUserIndex, userSubject, currentUserId>>
    /\ AuthCallNoted("signOut")
    /\ UNCHANGED <<sendPath, nonAuthVars>>

\* sendMessage takes the first value of auth.user; handleSendMessage:
\* if (!user) return Promise.reject('No user found')
handleSendMessage ==
    /\ Len(authLog) < MaxAuthCalls
    /\ sendPath' = IF userSubject = None THEN "No user found" ELSE "send"
    /\ UNCHANGED <<currentUserIndex, userSubject, currentUserId>>
    /\ AuthCallNoted("sendMessage")
    /\ UNCHANGED nonAuthVars

\* currentUserIndex = 0, _user = new BehaviorSubject(dummyUsers[0]); the
\* component has subscribed and got that value
AuthAtRest ==
    /\ currentUserIndex = 0
    /\ userSubject = dummyUsers(0)
    /\ currentUserId = dummyUsers(0)
    /\ authLog = <<>>
    /\ sendPath = "none"

(* ------------------------------------------------------------------ *)
(* ChatComponent: the message input and the send button                *)
(* ------------------------------------------------------------------ *)

\* sendMessage calls the chat view makes in one run
MaxCompose == 2

\* messages of the open chat that carry a reply button
ThreadParents == {1, 2}

\* texts of the textarea: empty, blank, a text, and the quotation
\* replyToMessage writes
Texts == {"", " ", "hi", "> hi..."}

\* String.prototype.trim
Trim(t) == IF t = " " THEN "" ELSE t

\* `> ${message.content.substring(0, 50)}...\n`
Quotation(m) == "> hi..."

\* selectedFile is null, a File, or undefined (files[0] of an empty list)
FileValues == {"null", "file", "undefined"}

EmptyInput == [newMessage |-> "", selectedFile |-> "null",
               fileUrl |-> FALSE, fileName |-> FALSE]

ComposeAtRest ==
    /\ input = EmptyInput
    /\ replyTarget = None
    /\ sent = <<>>
    /\ posted = <<>>
    /\ parentReplies = [m \in ThreadParents |-> 0]

\* [(ngModel)]="newMessage"
typeMessage(t) ==
    /\ input' = [input EXCEPT !.newMessage = t]
    /\ UNCHANGED <<replyTarget, sent, posted, parentReplies>>
    /\ UNCHANGED nonComposeVars

handleFileSelection(file) ==
    IF file # "undefined"
    THEN [input EXCEPT !.selectedFile = file, !.fileUrl = TRUE,
                       !.fileName = TRUE]
    ELSE [input EXCEPT !.selectedFile = file, !.fileUrl = FALSE,
                       !.fileName = FALSE]

onFileSelected(file) ==
    /\ input' = handleFileSelection(file)
    /\ UNCHANGED <<replyTarget, sent, posted, parentReplies>>
    /\ UNCHANGED nonComposeVars

\* the input is cleared and the quotation of the message is written into
\* it; the id of the message is kept nowhere in the component
replyToMessage(m) ==
    /\ input' = [EmptyInput EXCEPT !.newMessage = Quotation(m)]
    /\ replyTarget' = m
    /\ UNCHANGED <<sent, posted, parentReplies>>
    /\ UNCHANGED nonComposeVars

isMessageValid ==
    Trim(input.newMessage) # "" \/ input.selectedFile # "null"

\* variant: the message replied to is passed on
ReplyToOfTarget(target) == target

\* the replyTo argument of messageService.sendMessage: the call has three
\* arguments, so the parameter is undefined
ReplyToPassed(target) == None

\* ChatComponent.sendMessage with a valid input: the call is made and the
\* input is left as it is while the promise is pending; of the arguments
\* only replyTo is recorded, content and file have no part in what follows
sendChatMessage ==
    /\ isMessageValid
    /\ Len(sent) < MaxCompose
    /\ sent' = Append(sent, [replyTo |-> ReplyToPassed(replyTarget),
                             target |-> replyTarget,
                             state |-> "pending"])
    /\ replyTarget' = None
    /\ UNCHANGED <<input, posted, parentReplies>>
    /\ UNCHANGED nonComposeVars

resetMessageInput == EmptyInput

\* the promise of call i resolves: the service has persisted the message
\* with the replyTo it was given and has counted it on that message
SendResolves(i) ==
    /\ i \in DOMAIN sent
    /\ sent[i].state = "pending"
    /\ sent' = [sent EXCEPT ![i].state = "resolved"]
    /\ posted' = Append(posted, [call |-> i, replyTo |-> sent[i].replyTo])
    /\ parentReplies' =
         IF sent[i].replyTo # None
         THEN [parentReplies EXCEPT ![sent[i].replyTo] = @ + 1]
         ELSE parentReplies
    /\ input' = resetMessageInput
    /\ UNCHANGED replyTarget
    /\ UNCHANGED nonComposeVars

\* variant: the input is cleared after a failure as well
ResetAfterReject(inp) == EmptyInput

\* the catch handler logs the error and touches nothing
InputAfterReject(inp) == inp

\* the promise of call i is rejected: nothing has been persisted
SendRejects(i) ==
    /\ i \in DOMAIN sent
    /\ sent[i].state = "pending"
    /\ sent' = [sent EXCEPT ![i].state = "rejected"]
    /\ input' = InputAfterReject(input)
    /\ UNCHANGED <<replyTarget, posted, parentReplies>>
    /\ UNCHANGED nonComposeVars

(* ------------------------------------------------------------------ *)
(* ThreadSidebarComponent                                              *)
(* ------------------------------------------------------------------ *)

\* subscriptions loadThreadMessages makes in one run
MaxLoads == 2

\* messages added to the chats in one run
MaxThreadAdds == 1

\* the chat that is open at the start and another chat; chat ids and
\* message ids are document ids of different collections
OpenChat == 11
OtherChat == 12
ThreadChats == {OpenChat, OtherChat}

\* the user of the session the sidebar runs in
ThreadUser == 1

\* message ids of the thread model
ThreadMsgIds == 1 .. (5 + MaxThreadAdds)

\* the open chat holds two messages and a reply to each of them, the other
\* chat a message of its own
ThreadSeed ==
    [ch \in ThreadChats |->
        IF ch = OpenChat
        THEN <<[id |-> 1, replyTo |-> None], [id |-> 2, replyTo |-> None],
               [id |-> 3, replyTo |-> 1], [id |-> 4, replyTo |-> 2]>>
        ELSE <<[id |-> 5, replyTo |-> None]>>]

IdsOf(list) == {list[i].id : i \in DOMAIN list}

AllThreadMsgs == UNION {IdsOf(tmsgs[ch]) : ch \in ThreadChats}

NoReaction == [made |-> FALSE, id |-> None, open |-> None, path |-> <<>>]

ThreadAtRest ==
    /\ chatOrder = <<OpenChat, OtherChat>>
    /\ members = [ch \in ThreadChats |-> {1, 2}]
    /\ tmsgs = ThreadSeed
    /\ selectedChatId = OpenChat
    /\ selectedMessageId = None
    /\ subs = <<>>
    /\ originalMessage = <<>>
    /\ messagesShown = <<>>
    /\ lastReaction = [thread |-> NoReaction, chat |-> NoReaction]

\* AppComponent.onChatSelected
onChatSelected(ch) ==
    /\ selectedChatId' = ch
    /\ UNCHANGED <<chatOrder, members, tmsgs, selectedMessageId, subs,
                   originalMessage, messagesShown, lastReaction>>
    /\ UNCHANGED nonThreadVars

\* variant: the subscription made before is ended first
ReplaceSubscription(list, sub) == <<sub>>

\* this.messagesSubscription = ...subscribe(...): the field is overwritten,
\* the subscription it held stays live
KeepSubscription(list, sub) == Append(list, sub)

\* the subscription on getChats() with nothing delivered yet
loadThreadMessages(messageId) ==
    KeepSubscription(subs, [messageId |-> messageId, chat |-> None,
                            outer |-> TRUE, inner |-> FALSE])

\* AppComponent.openThreadSidebar from the thread button of a message of
\* the open chat; ngOnChanges runs when the bound value has changed
openThreadSidebar(m) ==
    /\ m \in IdsOf(tmsgs[selectedChatId])
    /\ m # selectedMessageId
    /\ Len(subs) < MaxLoads
    /\ selectedMessageId' = m
    /\ subs' = loadThreadMessages(m)
    /\ UNCHANGED <<chatOrder, members, tmsgs, selectedChatId,
                   originalMessage, messagesShown, lastReaction>>
    /\ UNCHANGED nonThreadVars

\* variant: the chat that is open in the chat view
ChatOpenInView(order) == <<selectedChatId>>

\* chats.find(chat => chat.participants.includes(currentUserId)):
\* the first chat of the list the user takes part in, if there is one
FindChat(order) ==
    LET own == SelectSeq(order, LAMBDA ch : ThreadUser \in members[ch])
    IN  IF own = <<>> THEN <<>> ELSE <<Head(own)>>

\* getChats() delivers to subscription i: switchMap drops the inner
\* subscription and subscribes to the messages of the chat found, or
\* emits [undefined, []] at once
ChatsEmitted(i) ==
    /\ i \in DOMAIN subs
    /\ subs[i].outer
    /\ LET found == FindChat(chatOrder)
       IN  IF found # <<>>
           THEN /\ subs' = [subs EXCEPT ![i].outer = FALSE,
                                        ![i].chat = found[1],
                                        ![i].inner = TRUE]
                /\ UNCHANGED <<originalMessage, messagesShown>>
           ELSE /\ subs' = [subs EXCEPT ![i].outer = FALSE,
                                        ![i].chat = None,
                                        ![i].inner = FALSE]
                /\ originalMessage' = <<>>
                /\ messagesShown' = <<>>
    /\ UNCHANGED <<chatOrder, members, tmsgs, selectedChatId,
                   selectedMessageId, lastReaction>>
    /\ UNCHANGED nonThreadVars

\* messages.find(m => m.id === messageId)
FindOriginal(list, messageId) ==
    LET hit == SelectSeq(list, LAMBDA m : m.id = messageId)
    IN  IF hit = <<>> THEN <<>> ELSE <<Head(hit).id>>

\* messages.filter(m => m.replyTo === messageId), as a list of ids
FilterReplies(list, messageId) ==
    LET hit == SelectSeq(list, LAMBDA m : m.replyTo = messageId)
    IN  [k \in DOMAIN hit |-> hit[k].id]

\* getMessages(chat.id) delivers to subscription i, and the subscriber
\* replaces originalMessage$ and messages$
ThreadMessagesEmitted(i) ==
    /\ i \in DOMAIN subs
    /\ subs[i].inner
    /\ subs' = [subs EXCEPT ![i].inner = FALSE]
    /\ originalMessage' = FindOriginal(tmsgs[subs[i].chat], subs[i].messageId)
    /\ messagesShown' = FilterReplies(tmsgs[subs[i].chat], subs[i].messageId)
    /\ UNCHANGED <<chatOrder, members, tmsgs, selectedChatId,
                   selectedMessageId, lastReaction>>
    /\ UNCHANGED nonThreadVars

\* a message is added to chat ch (by any session): the message lists of
\* the subscriptions on that chat emit again
messageAdded(ch, r) ==
    /\ Cardinality(AllThreadMsgs) < 5 + MaxThreadAdds
    /\ r \in {None} \cup IdsOf(tmsgs[ch])
    /\ tmsgs' = [tmsgs EXCEPT ![ch] =
                    Append(@, [id |-> Cardinality(AllThreadMsgs) + 1,
                               replyTo |-> r])]
    /\ subs' = [k \in DOMAIN subs |->
                  IF subs[k].chat = ch /\ ~subs[k].outer
                  THEN [subs[k] EXCEPT !.inner = TRUE] ELSE subs[k]]
    /\ UNCHANGED <<chatOrder, members, selectedChatId, selectedMessageId,
                   originalMessage, messagesShown, lastReaction>>
    /\ UNCHANGED nonThreadVars

\* the lastMessageTimestamp of chat ch is updated: the chat becomes the
\* first of the list and getChats() emits again
chatTouched(ch) ==
    /\ chatOrder' = <<ch>> \o SelectSeq(chatOrder, LAMBDA x : x # ch)
    /\ subs' = [k \in DOMAIN subs |-> [subs[k] EXCEPT !.outer = TRUE]]
    /\ UNCHANGED <<members, tmsgs, selectedChatId, selectedMessageId,
                   originalMessage, messagesShown, lastReaction>>
    /\ UNCHANGED nonThreadVars

\* `chats/${chatId}/messages/${message.id}`
MessagePath(chatId, id) == <<chatId, id>>

\* variant: the id of the open chat is passed
ThreadReactionChat == selectedChatId

\* the first argument of updateMessage in the sidebar's addReaction
SidebarReactionChat == selectedMessageId

\* ThreadSidebarComponent.addReaction on a message the sidebar shows
sidebarAddReaction(id) ==
    /\ id \in Range(originalMessage) \cup Range(messagesShown)
    /\ lastReaction' =
         [lastReaction EXCEPT !.thread =
            [made |-> TRUE, id |-> id, open |-> selectedChatId,
             path |-> MessagePath(SidebarReactionChat, id)]]
    /\ UNCHANGED <<chatOrder, members, tmsgs, selectedChatId,
                   selectedMessageId, subs, originalMessage, messagesShown>>
    /\ UNCHANGED nonThreadVars

\* ChatComponent.addReaction on a message of the open chat
chatAddReaction(id) ==
    /\ id \in IdsOf(tmsgs[selectedChatId])
    /\ lastReaction' =
         [lastReaction EXCEPT !.chat =
            [made |-> TRUE, id |-> id, open |-> selectedChatId,
             path |-> MessagePath(selectedChatId, id)]]
    /\ UNCHANGED <<chatOrder, members, tmsgs, selectedChatId,
                   selectedMessageId, subs, originalMessage, messagesShown>>
    /\ UNCHANGED nonThreadVars

(* ------------------------------------------------------------------ *)
(* Replies to the message document and its replies counter             *)
(* ------------------------------------------------------------------ *)

\* sendMessage calls with replyTo made in one run
MaxReplies == 2

CountAtRest ==
    /\ replyDocs = 0
    /\ replySends = 0
    /\ rc = [c \in Clients |-> [pc |-> "idle", read |-> 0]]

\* variant: the counter is updated whether or not the add has succeeded
CountedAlways(ok) == TRUE

\* updateReplyCount is called in the then callback of the add
CountedWhen(ok) == ok

\* sendMessage with replyTo = the id of the message: the add stores the
\* reply or is rejected, and after a stored reply updateReplyCount starts
sendReply(c, ok) ==
    /\ replySends < MaxReplies
    /\ rc[c].pc = "idle"
    /\ replySends' = replySends + 1
    /\ replyDocs' = IF ok THEN replyDocs + 1 ELSE replyDocs
    /\ rc' = [rc EXCEPT ![c].pc = IF CountedWhen(ok) THEN "get" ELSE "idle"]
    /\ UNCHANGED docVars
    /\ UNCHANGED nonCountVars

\* updateReplyCount: doc.get() has delivered the message
getParentReplies(c) ==
    /\ rc[c].pc = "get"
    /\ rc' = [rc EXCEPT ![c] = [pc |-> "set", read |-> RepliesOrZero(mdoc)]]
    /\ UNCHANGED <<replyDocs, replySends>>
    /\ UNCHANGED docVars
    /\ UNCHANGED nonCountVars

\* updateReplyCount: update({ replies: newReplyCount }) is stored
setParentReplies(c) ==
    /\ rc[c].pc = "set"
    /\ mdoc' = [mdoc EXCEPT !.replies = <<NewReplyCount(rc[c].read)>>]
    /\ rc' = [rc EXCEPT ![c] = [pc |-> "idle", read |-> 0]]
    /\ UNCHANGED <<replyDocs, replySends>>
    /\ UNCHANGED <<seen, shown, probe, editing, dialog, lastWrite, wasDeleted>>
    /\ UNCHANGED nonCountVars

\* updateReplyCount: the get or the update is rejected
replyCountFails(c) ==
    /\ rc[c].pc \in {"get", "set"}
    /\ rc' = [rc EXCEPT ![c] = [pc |-> "idle", read |-> 0]]
    /\ UNCHANGED <<replyDocs, replySends>>
    /\ UNCHANGED docVars
    /\ UNCHANGED nonCountVars

(* ------------------------------------------------------------------ *)
(* CreateChatDialogComponent and SidebarComponent.handleDialogResult   *)
(* ------------------------------------------------------------------ *)

\* create-chat dialogs opened in one run
MaxDialogs == 2

\* the users listed in the dialog: 'user2' and 'user3'
DialogUsers == {2, 3}

\* the user of the session the sidebar runs in: 'user1'
SidebarUser == 1

ChatTypes == {"single", "group"}

ChatNames == {"", "team"}

\* the value afterClosed() emits when the dialog is closed without data
NoResult == [given |-> FALSE, type |-> "single", selectedUsers |-> <<>>,
             chatName |-> ""]

CreateAtRest ==
    /\ dialogOpen = FALSE
    /\ newChatType = "single"
    /\ selectedUsers = <<>>
    /\ chatName = ""
    /\ results = <<>>
    /\ lookups = <<>>
    /\ creates = <<>>
    /\ selections = <<>>

\* SidebarComponent.openCreateChatDialog: a new dialog component
openCreateChatDialog ==
    /\ ~dialogOpen
    /\ Len(results) < MaxDialogs
    /\ dialogOpen' = TRUE
    /\ newChatType' = "single"
    /\ selectedUsers' = <<>>
    /\ chatName' = ""
    /\ UNCHANGED <<results, lookups, creates, selections>>
    /\ UNCHANGED nonCreateVars

\* the chat type is changed in the dialog: the field is assigned, and no
\* method of the component runs
setNewChatType(t) ==
    /\ dialogOpen
    /\ newChatType' = t
    /\ UNCHANGED <<dialogOpen, selectedUsers, chatName, results, lookups,
                   creates, selections>>
    /\ UNCHANGED nonCreateVars

\* the chat name is typed in the dialog
setChatName(n) ==
    /\ dialogOpen
    /\ chatName' = n
    /\ UNCHANGED <<dialogOpen, newChatType, selectedUsers, results, lookups,
                   creates, selections>>
    /\ UNCHANGED nonCreateVars

selectSingleUser(userId) == <<userId>>

toggleMultipleUsers(list, userId) ==
    IF userId \in Range(list)
    THEN SelectSeq(list, LAMBDA uid : uid # userId)
    ELSE Append(list, userId)

toggleUser(userId) ==
    /\ dialogOpen
    /\ selectedUsers' = IF newChatType = "single"
                        THEN selectSingleUser(userId)
                        ELSE toggleMultipleUsers(selectedUsers, userId)
    /\ UNCHANGED <<dialogOpen, newChatType, chatName, results, lookups,
                   creates, selections>>
    /\ UNCHANGED nonCreateVars

getChatCreationData ==
    [given |-> TRUE, type |-> newChatType, selectedUsers |-> selectedUsers,
     chatName |-> chatName]

\* variant: a single chat is started for the first of the selected users
BranchOfFirstUser(result) ==
    IF ~result.given THEN "none"
    ELSE IF result.type = "single" /\ Len(result.selectedUsers) >= 1
         THEN "single"
    ELSE IF /\ result.type = "group"
            /\ Len(result.selectedUsers) > 1
            /\ result.chatName # ""
         THEN "group"
    ELSE "none"

\* the branch handleDialogResult takes
handleDialogResult(result) ==
    IF ~result.given THEN "none"
    ELSE IF result.type = "single" /\ Len(result.selectedUsers) = 1
         THEN "single"
    ELSE IF /\ result.type = "group"
            /\ Len(result.selectedUsers) > 1
            /\ result.chatName # ""
         THEN "group"
    ELSE "none"

\* afterClosed() emits result: createSingleChat subscribes to getUser,
\* createGroupChat calls createChat at once
DialogCloses(result) ==
    /\ dialogOpen' = FALSE
    /\ results' = Append(results, result)
    /\ LET branch == handleDialogResult(result)
           k == Len(results) + 1
       IN  /\ lookups' =
                IF branch = "single"
                THEN Append(lookups, [from |-> k, pending |-> TRUE,
                                      otherUserId |-> result.selectedUsers[1]])
                ELSE lookups
           /\ creates' =
                IF branch = "group"
                THEN Append(creates,
                            [from |-> k, type |-> "group",
                             participants |->
                                 <<SidebarUser>> \o result.selectedUsers,
                             name |-> result.chatName, state |-> "pending"])
                ELSE creates
    /\ UNCHANGED <<newChatType, selectedUsers, chatName, selections>>
    /\ UNCHANGED nonCreateVars

\* CreateChatDialogComponent.createChat
dialogCreateChat ==
    /\ dialogOpen
    /\ DialogCloses(getChatCreationData)

\* the dialog is closed without data (backdrop, escape)
dialogDismissed ==
    /\ dialogOpen
    /\ DialogCloses(NoResult)

\* getUser(otherUserId) emits: with a user, createChat('single', ...) is
\* called with the user's display name
getUserEmits(i, found) ==
    /\ i \in DOMAIN lookups
    /\ lookups[i].pending
    /\ lookups' = [lookups EXCEPT ![i].pending = FALSE]
    /\ creates' =
         IF found
         THEN Append(creates,
                     [from |-> lookups[i].from, type |-> "single",
                      participants |-> <<SidebarUser, lookups[i].otherUserId>>,
                      name |-> "displayName", state |-> "pending"])
         ELSE creates
    /\ UNCHANGED <<dialogOpen, newChatType, selectedUsers, chatName, results,
                   selections>>
    /\ UNCHANGED nonCreateVars

\* createChat resolves: handleChatCreation selects the chat
handleChatCreation(i) ==
    /\ i \in DOMAIN creates
    /\ creates[i].state = "pending"
    /\ creates' = [creates EXCEPT ![i].state = "resolved"]
    /\ selections' = Append(selections, [from |-> creates[i].from, call |-> i])
    /\ UNCHANGED <<dialogOpen, newChatType, selectedUsers, chatName, results,
                   lookups>>
    /\ UNCHANGED nonCreateVars

\* createChat is rejected: the error is logged
createChatRejected(i) ==
    /\ i \in DOMAIN creates
    /\ creates[i].state = "pending"
    /\ creates' = [creates EXCEPT ![i].state = "rejected"]
    /\ UNCHANGED <<dialogOpen, newChatType, selectedUsers, chatName, results,
                   lookups, selections>>
    /\ UNCHANGED nonCreateVars

\* the components at rest
UiAtRest ==
    /\ ComposeAtRest
    /\ ThreadAtRest
    /\ CountAtRest
    /\ switched = [c \in Clients |-> None]
    /\ CreateAtRest

(* ------------------------------------------------------------------ *)
(* Specifications                                                      *)
(* ------------------------------------------------------------------ *)

Init ==
    /\ UiAtRest
    /\ ChatsAtRest
    /\ PureAtRest
    /\ ReactAtRest
    /\ SendAtRest
    /\ DocAtRest
    /\ AuthAtRest

NextChats ==
    \/ \E c \in Clients, p \in ParticipantLists : createChat(c, "single", p)
    \/ \E c \in Clients, p \in ParticipantLists : createChat(c, "group", p)
    \/ \E c \in Clients : RunSingleChatQuery(c)
    \/ \E c \in Clients : handleSingleChatQuery(c)
    \/ \E c \in Clients : addNewChat(c)
    \/ \E c \in Clients : CreateChatReturns(c)

SpecChats == Init /\ [][NextChats]_vars

InitPure ==
    /\ UiAtRest
    /\ ChatsAtRest
    /\ ReactAtRest
    /\ SendAtRest
    /\ DocAtRest
    /\ AuthAtRest
    /\ pIn \in ReactionMaps
    /\ pUser \in DummyUsers
    /\ pEmoji \in Emojis
    /\ pOut = [written |-> EmptyMap, local |-> EmptyMap]
    /\ pDone = FALSE

NextPure == CallCreateReactionUpdate

SpecPure == InitPure /\ [][NextPure]_vars

NextReact ==
    \/ \E c \in Clients : MessagesEmitted(c)
    \/ \E c \in Clients, e \in Emojis : addReaction(c, e)
    \/ \E c \in Clients : UpdateArrives(c)
    \/ \E c \in Clients : UpdateRejected(c)
    \/ \E c \in Clients : switchUser(c)

SpecReact == Init /\ [][NextReact]_vars

NextSend ==
    \/ \E c \in Clients, ch \in SendChats, f \in BOOLEAN,
          r \in {None} \cup MsgIds : sendMessage(c, ch, f, r)
    \/ \E c \in Clients : UploadDone(c)
    \/ \E c \in Clients : UploadFails(c)
    \/ \E c \in Clients : addMessageToFirestore(c)
    \/ \E c \in Clients : AddFails(c)
    \/ \E c \in Clients : ReadChat(c)
    \/ \E c \in Clients : WriteLastMessageTimestamp(c)
    \/ \E c \in Clients : LastMessageTimestampFails(c)
    \/ \E c \in Clients : ReadParent(c)
    \/ \E c \in Clients : WriteReplyCount(c)
    \/ \E c \in Clients : ReadParentFails(c)
    \/ \E c \in Clients : WriteReplyCountFails(c)
    \/ \E c \in Clients : SendReturns(c)

\* chat 1 holds one message, sent by user1 earlier, without replies
InitSend ==
    /\ UiAtRest
    /\ ChatsAtRest
    /\ PureAtRest
    /\ ReactAtRest
    /\ DocAtRest
    /\ AuthAtRest
    /\ msgs = Put(<<>>, 1, createMessageData(1, 1, None, 1))
    /\ lastTs = [ch \in SendChats |-> IF ch = 1 THEN <<1>> ELSE <<>>]
    /\ clock = 2
    /\ snd = [c \in Clients |-> IdleSend]
    /\ sends = 0
    /\ sndOverlap = FALSE
    /\ rcFailed = FALSE
    /\ tsFailed = FALSE

SpecSend == InitSend /\ [][NextSend]_vars

NextAuth ==
    \/ authSwitchUser
    \/ googleSignIn
    \/ signOut
    \/ handleSendMessage

SpecAuth == Init /\ [][NextAuth]_vars

\* the message read, probed, reacted on, edited and replied to by sessions
\* that hold snapshots of different age
NextDoc ==
    \/ \E c \in Clients : getMessages(c)
    \/ \E c \in Clients : ProbeSucceeds(c)
    \/ \E c \in Clients, why \in ProbeErrors, ok \in BOOLEAN :
          ProbeFails(c, why, ok)
    \/ \E c \in Clients, e \in Emojis, ok \in BOOLEAN :
          reactOnMessage(c, e, ok)
    \/ \E c \in Clients : toggleEditMessage(c)
    \/ \E c \in Clients, t \in Contents, ok \in BOOLEAN :
          updateMessage(c, t, ok)
    \/ \E c \in Clients, ok \in BOOLEAN : deleteFile(c, ok)
    \/ \E c \in Clients : updateReplyCount(c)

\* the message with or without a file; each session has either user current
InitDoc ==
    /\ UiAtRest
    /\ ChatsAtRest
    /\ PureAtRest
    /\ SendAtRest
    /\ AuthAtRest
    /\ stored = EmptyMap
    /\ view = [c \in Clients |-> EmptyMap]
    /\ cur \in [Clients -> DummyUsers]
    /\ pending = [c \in Clients |-> <<>>]
    /\ landed = <<>>
    /\ reacts = 0
    /\ mdoc \in {MessageDocument(f) : f \in BOOLEAN}
    /\ seen = [c \in Clients |-> <<>>]
    /\ shown = [c \in Clients |-> <<>>]
    /\ probe = [c \in Clients |-> "idle"]
    /\ editing = [c \in Clients |-> FALSE]
    /\ dialog = [c \in Clients |-> [open |-> FALSE, held |-> <<>>]]
    /\ lastWrite = [n |-> 0, kind |-> "none", user |-> None, sender |-> None,
                    ok |-> TRUE, caught |-> TRUE]
    /\ wasDeleted = FALSE

SpecDoc == InitDoc /\ [][NextDoc]_vars

\* the edit handlers of the chat view and of the MessageDialog, and
\* switchUser between them
NextEdit ==
    \/ \E c \in Clients : getMessages(c)
    \/ \E c \in Clients : ProbeSucceeds(c)
    \/ \E c \in Clients : toggleEditMessage(c)
    \/ \E c \in Clients, t \in Contents, ok \in BOOLEAN :
          updateMessage(c, t, ok)
    \/ \E c \in Clients, ok \in BOOLEAN : deleteFile(c, ok)
    \/ \E c \in Clients : openMessageDialog(c)
    \/ \E c \in Clients, t \in Contents, ok \in BOOLEAN :
          dialogUpdateMessage(c, t, ok)
    \/ \E c \in Clients, ok \in BOOLEAN : dialogDeleteFile(c, ok)
    \/ \E c \in Clients : cancel(c)
    \/ \E c \in Clients : switchUser(c)

SpecEdit == Init /\ [][NextEdit]_vars

\* the chat view: typing, choosing a file, replying and sending
NextCompose ==
    \/ \E t \in Texts : typeMessage(t)
    \/ \E f \in FileValues \ {"null"} : onFileSelected(f)
    \/ \E m \in ThreadParents : replyToMessage(m)
    \/ sendChatMessage
    \/ \E i \in 1 .. MaxCompose : SendResolves(i)
    \/ \E i \in 1 .. MaxCompose : SendRejects(i)

SpecCompose == Init /\ [][NextCompose]_vars

\* the thread sidebar next to the chat view, while chats and messages change
NextThread ==
    \/ \E ch \in ThreadChats : onChatSelected(ch)
    \/ \E m \in ThreadMsgIds : openThreadSidebar(m)
    \/ \E i \in 1 .. MaxLoads : ChatsEmitted(i)
    \/ \E i \in 1 .. MaxLoads : ThreadMessagesEmitted(i)
    \/ \E ch \in ThreadChats, r \in {None} \cup ThreadMsgIds :
          messageAdded(ch, r)
    \/ \E ch \in ThreadChats : chatTouched(ch)

\* the user may or may not take part in the other chat, and either chat
\* may be the one updated last
InitThread ==
    /\ ChatsAtRest
    /\ PureAtRest
    /\ ReactAtRest
    /\ SendAtRest
    /\ DocAtRest
    /\ AuthAtRest
    /\ ComposeAtRest
    /\ CountAtRest
    /\ switched = [c \in Clients |-> None]
    /\ CreateAtRest
    /\ chatOrder \in {<<OpenChat, OtherChat>>, <<OtherChat, OpenChat>>}
    /\ members \in {[ch \in ThreadChats |->
                       IF ch = OpenChat THEN {1, 2} ELSE o] :
                    o \in {{1, 2}, {2}}}
    /\ tmsgs = ThreadSeed
    /\ selectedChatId = OpenChat
    /\ selectedMessageId = None
    /\ subs = <<>>
    /\ originalMessage = <<>>
    /\ messagesShown = <<>>
    /\ lastReaction = [thread |-> NoReaction, chat |-> NoReaction]

SpecThread == InitThread /\ [][NextThread]_vars

\* reactions added from the thread sidebar and from the chat view
NextThreadReact ==
    \/ \E ch \in ThreadChats : onChatSelected(ch)
    \/ \E m \in ThreadMsgIds : openThreadSidebar(m)
    \/ \E i \in 1 .. MaxLoads : ChatsEmitted(i)
    \/ \E i \in 1 .. MaxLoads : ThreadMessagesEmitted(i)
    \/ \E id \in ThreadMsgIds : sidebarAddReaction(id)
    \/ \E id \in ThreadMsgIds : chatAddReaction(id)

SpecThreadReact == Init /\ [][NextThreadReact]_vars

\* replies sent to the message while sessions with snapshots of different
\* age react on it and edit it
NextCount ==
    \/ \E c \in Clients : getMessages(c)
    \/ \E c \in Clients, e \in Emojis, ok \in BOOLEAN :
          reactOnMessage(c, e, ok)
    \/ \E c \in Clients : toggleEditMessage(c)
    \/ \E c \in Clients, t \in Contents, ok \in BOOLEAN :
          updateMessage(c, t, ok)
    \/ \E c \in Clients, ok \in BOOLEAN : sendReply(c, ok)
    \/ \E c \in Clients : getParentReplies(c)
    \/ \E c \in Clients : setParentReplies(c)
    \/ \E c \in Clients : replyCountFails(c)

\* the message has no file, so no probe is made; both sessions are its
\* sender's
InitCount ==
    /\ InitDoc
    /\ ~mdoc.fileUrl
    /\ \A c \in Clients : cur[c] = mdoc.senderId

SpecCount == InitCount /\ [][NextCount]_vars

\* sendMessage to a chat id without a chat document (as the default
\* 'test-chat'), without replyTo, while the session's user is switched
NextSwitch ==
    \/ \E c \in Clients, f \in BOOLEAN : sendMessage(c, 2, f, None)
    \/ \E c \in Clients : UploadDone(c)
    \/ \E c \in Clients : UploadFails(c)
    \/ \E c \in Clients : addMessageToFirestore(c)
    \/ \E c \in Clients : AddFails(c)
    \/ \E c \in Clients : ReadChat(c)
    \/ \E c \in Clients : SendReturns(c)
    \/ \E c \in Clients : switchUser(c)

SpecSwitch == InitSend /\ [][NextSwitch]_vars

\* the create-chat dialog and what the sidebar does with its result
NextCreate ==
    \/ openCreateChatDialog
    \/ \E t \in ChatTypes : setNewChatType(t)
    \/ \E n \in ChatNames : setChatName(n)
    \/ \E u \in DialogUsers : toggleUser(u)
    \/ dialogCreateChat
    \/ dialogDismissed
    \/ \E i \in 1 .. MaxDialogs : getUserEmits(i, TRUE)
    \/ \E i \in 1 .. MaxDialogs : getUserEmits(i, FALSE)
    \/ \E i \in 1 .. MaxDialogs : handleChatCreation(i)
    \/ \E i \in 1 .. MaxDialogs : createChatRejected(i)

SpecCreate == Init /\ [][NextCreate]_vars

(* ------------------------------------------------------------------ *)
(* Properties of createChat                                             *)
(* ------------------------------------------------------------------ *)

SingleChatIds == {id \in DOMAIN chats : chats[id].type = "single"}

OnePerPair ==
    \A i, j \in SingleChatIds :
        i # j => Range(chats[i].participants) # Range(chats[j].participants)

\* C1: a finished createChat('single', ...) whose lookup found matching
\* single chats resolved with the id of the first of them and added no
\* document; one whose lookup found none added exactly one single chat
\* document, holding the sorted participants.
C1_ReuseFirstMatchElseAddOne ==
    \A c \in Clients :
        (cc[c].pc = "done" /\ cc[c].type = "single") =>
            IF cc[c].qres # {}
            THEN /\ cc[c].result = Min(cc[c].qres)
                 /\ cc[c].added = {}
            ELSE /\ cc[c].added = {cc[c].result}
                 /\ cc[c].result \in DOMAIN chats
                 /\ chats[cc[c].result] =
                        [type |-> "single",
                         participants |-> SortIds(cc[c].arg)]

\* one call has just created a chat and another has just reused a chat
C1_Witness ==
    \E c, d \in Clients :
        /\ cc[c].pc = "done" /\ cc[c].type = "single"
        /\ cc[c].qres = {} /\ cc[c].added = {cc[c].result}
        /\ cc[d].pc = "done" /\ cc[d].type = "single"
        /\ cc[d].qres # {} /\ cc[d].result = Min(cc[d].qres)
        /\ cc[d].added = {}

\* C2: as long as no two single-chat calls were in flight together, the
\* collection holds at most one single chat per unordered participant pair.
C2_OnePerPairWithoutOverlap == ~ccOverlap => OnePerPair

\* a call passing <<2, 1>> has resolved to the chat stored under <<1, 2>>
C2_Witness ==
    /\ ~ccOverlap
    /\ \E c \in Clients :
          /\ cc[c].pc = "done" /\ cc[c].type = "single"
          /\ cc[c].arg = <<2, 1>>
          /\ cc[c].added = {}
          /\ cc[c].result \in SingleChatIds
          /\ chats[cc[c].result].participants = <<1, 2>>

\* C3: at most one single chat per participant pair in every reachable
\* state, overlapping calls included.
C3_OnePerPairAlways == OnePerPair

(* ------------------------------------------------------------------ *)
(* Properties of the reaction maps                                     *)
(* ------------------------------------------------------------------ *)

\* the emojis whose bucket in m holds user u
BucketsOf(m, u) == {k \in DOMAIN m : Includes(m[k], u)}

Occurrences(s, u) == Cardinality({i \in DOMAIN s : s[i] = u})

\* C4: the map createReactionUpdate returns holds the acting user exactly
\* once in the bucket of the target emoji and in no other bucket, whatever
\* the input map.
C4_UserOnceInTargetOnly ==
    pDone =>
        /\ pEmoji \in DOMAIN pOut.written
        /\ Occurrences(pOut.written[pEmoji], pUser) = 1
        /\ BucketsOf(pOut.written, pUser) = {pEmoji}

\* the user was in the target bucket already, and in another bucket too
C4_Witness ==
    /\ pDone
    /\ pEmoji \in BucketsOf(pIn, pUser)
    /\ BucketsOf(pIn, pUser) # {pEmoji}
    /\ BucketsOf(pOut.written, pUser) = {pEmoji}

\* C5: the stored reaction map holds every user in at most one bucket.
C5_AtMostOneBucketPerUser ==
    \A u \in DummyUsers : Cardinality(BucketsOf(stored, u)) <= 1

\* an update computed from a snapshot that was stale by then has arrived,
\* while both users have a reaction stored
C5_Witness ==
    /\ Len(landed) = 2
    /\ landed[2].base # stored
    /\ landed[2].base # EmptyMap
    /\ \A u \in DummyUsers : Cardinality(BucketsOf(stored, u)) = 1

\* C6: no bucket of the stored reaction map has an empty userIds list.
C6_NoEmptyBucket == \A k \in DOMAIN stored : stored[k] # <<>>

\* C7: when two updates of different users, computed from the same
\* snapshot, have arrived one after the other, the stored map lacks the
\* reaction of the user whose update arrived first (unless the snapshot
\* held that very reaction already).
C7_FirstOfTwoWritesLost ==
    (/\ Len(landed) = 2
     /\ landed[1].user # landed[2].user
     /\ landed[1].base = landed[2].base
     /\ landed[1].emoji \notin BucketsOf(landed[1].base, landed[1].user))
    => landed[1].emoji \notin BucketsOf(stored, landed[1].user)

\* two users reacted from the same snapshot, both updates arrived, and the
\* first one's reaction is gone
C7_Witness ==
    /\ Len(landed) = 2
    /\ landed[1].user # landed[2].user
    /\ landed[1].base = landed[2].base
    /\ BucketsOf(landed[1].base, landed[1].user) = {}
    /\ BucketsOf(stored, landed[1].user) = {}
    /\ BucketsOf(stored, landed[2].user) = {landed[2].emoji}

(* ------------------------------------------------------------------ *)
(* Properties of the reply counter                                     *)
(* ------------------------------------------------------------------ *)

\* the persisted messages of m's chat that reply to m
RepliesTo(m) ==
    {r \in DOMAIN msgs : msgs[r].chat = msgs[m].chat /\ msgs[r].replyTo = m}

CountersExact ==
    \A m \in DOMAIN msgs : RepliesOrZero(msgs[m]) = Cardinality(RepliesTo(m))

Quiet == \A c \in Clients : AtRest(c)

\* C8: updateReplyCount reads and writes the parent only once the reply is
\* persisted, and a counter write that no other write to the parent came
\* before, since the reply was persisted, leaves the counter one above what
\* it was then (a missing counter counting as 0).
C8_CountAfterPersistPlusOne ==
    \A c \in Clients :
        /\ snd[c].rcPc # "off" =>
               /\ snd[c].replyTo # None
               /\ snd[c].msgId \in DOMAIN msgs
               /\ msgs[snd[c].msgId].replyTo = snd[c].replyTo
        /\ (snd[c].rcPc = "end" /\ snd[c].failure = "no"
                /\ ~snd[c].intervened) =>
               snd[c].after = snd[c].before + 1

\* a second reply has taken its parent's counter from 1 to 2
C8_Witness ==
    \E c \in Clients :
        /\ snd[c].rcPc = "end" /\ snd[c].failure = "no"
        /\ ~snd[c].intervened
        /\ snd[c].before = 1 /\ snd[c].after = 2
        /\ MessageExists(snd[c].chat, snd[c].replyTo)
        /\ RepliesOrZero(msgs[snd[c].replyTo]) = 2

C10_CounterFailureKeepsSend ==
    \A c \in Clients :
        snd[c].failure # "no" =>
            /\ snd[c].result = "resolved"
            /\ snd[c].msgId \in DOMAIN msgs
            /\ msgs[snd[c].msgId].replyTo = snd[c].replyTo

\* one send found no parent, the other's counter read or write was
\* rejected; both have resolved
C10_Witness ==
    \E c, d \in Clients :
        /\ snd[c].failure = "missing" /\ snd[c].result = "resolved"
        /\ snd[d].failure \in {"read", "write"}
        /\ snd[d].result = "resolved"
        /\ {snd[c].msgId, snd[d].msgId} \subseteq DOMAIN msgs

(* ------------------------------------------------------------------ *)
(* Properties of getMessages and the file probe                        *)
(* ------------------------------------------------------------------ *)

\* the step delivers a snapshot to session c and starts getMetadata for it
ProbeStarts(c) == seen'[c] # seen[c] /\ probe'[c] = "pending"

\* the step delivers a snapshot to session c without a probe
EmittedWithoutProbe(c) == seen'[c] # seen[c] /\ probe'[c] # "pending"

\* C11: getMessages probes the object store for a message only if it has a
\* fileUrl and its fileDeleted flag is not true; every other message is
\* emitted unchanged, with no probe and no write; so once fileDeleted = true
\* has been stored for the message, no later emission probes it again.
C11_NoProbeOnceStoredDeleted ==
    [][\A c \in Clients :
         /\ ProbeStarts(c) =>
               /\ seen'[c][1].fileUrl
               /\ ~seen'[c][1].fileDeleted
               /\ ~wasDeleted
         /\ EmittedWithoutProbe(c) =>
               /\ shown'[c] = seen'[c]
               /\ mdoc' = mdoc
               /\ lastWrite' = lastWrite]_vars

\* C12: when the probe fails, for whatever reason, getMessages emits the
\* message with fileDeleted = true and sends an update that stores
\* fileDeleted = true on the document; when the probe succeeds the message is
\* emitted as delivered and nothing is written.
C12_ProbeFailureFlagsAndPersists ==
    [][\A c \in Clients :
         /\ (probe[c] = "pending" /\ probe'[c] \in ProbeErrors) =>
               /\ shown'[c] = <<[seen[c][1] EXCEPT !.fileDeleted = TRUE]>>
               /\ lastWrite'.n = lastWrite.n + 1
               /\ lastWrite'.kind = "fileDeleted"
               /\ lastWrite'.ok => mdoc'.fileDeleted
         /\ (probe[c] = "pending" /\ probe'[c] = "exists") =>
               /\ shown'[c] = seen[c]
               /\ mdoc' = mdoc
               /\ lastWrite' = lastWrite]_vars

\* a probe has failed with an error other than not-found; the message is
\* shown as deleted and the flag has reached the document
C12_Witness ==
    \E c \in Clients :
        /\ probe[c] = "other"
        /\ shown[c] # <<>>
        /\ shown[c][1].fileDeleted
        /\ lastWrite.kind = "fileDeleted"
        /\ lastWrite.ok
        /\ mdoc.fileDeleted

(* ------------------------------------------------------------------ *)
(* Properties of the AuthService                                       *)
(* ------------------------------------------------------------------ *)

\* C13: after any sequence of switchUser, googleSignIn and signOut calls the
\* current user of the AuthService is user1 or user2 and never null
\* (initially user1), so sendMessage never takes the 'No user found' path.
C13_UserNeverNull ==
    /\ userSubject \in DummyUsers
    /\ currentUserId = userSubject
    /\ authLog = <<>> => userSubject = 1
    /\ sendPath # "No user found"

\* signOut, googleSignIn and switchUser have all been called, and a send
\* after them has found a user
C13_Witness ==
    /\ \A op \in {"signOut", "googleSignIn", "switchUser"} :
           \E i \in DOMAIN authLog : authLog[i].op = op
    /\ authLog[Len(authLog)].op = "sendMessage"
    /\ sendPath = "send"

\* C14: switchUser alternates between the two identities: each call makes
\* the other identity the current user and emits it to the subscribers, and
\* two consecutive calls restore the original user.
C14_SwitchUserAlternates ==
    /\ \A i \in DOMAIN authLog :
           authLog[i].op = "switchUser" =>
               /\ authLog[i].after \in DummyUsers \ {authLog[i].before}
               /\ (i = Len(authLog) => currentUserId = authLog[i].after)
    /\ \A i \in DOMAIN authLog :
           (/\ i + 1 \in DOMAIN authLog
            /\ authLog[i].op = "switchUser"
            /\ authLog[i + 1].op = "switchUser")
               => authLog[i + 1].after = authLog[i].before

\* switchUser has been called twice in a row, from user2 back to user2
C14_Witness ==
    \E i \in DOMAIN authLog :
        /\ i + 1 \in DOMAIN authLog
        /\ authLog[i].op = "switchUser"
        /\ authLog[i + 1].op = "switchUser"
        /\ authLog[i].before = 2
        /\ authLog[i + 1].after = 2

(* ------------------------------------------------------------------ *)
(* Properties of the updates of a message document                     *)
(* ------------------------------------------------------------------ *)

\* C15: every rejection of a backend read or write started by the message
\* service is caught by a handler and logged; no rejected promise is left
\* without a handler.
C15_EveryRejectionCaught == lastWrite.caught

\* C16: no edit (a content change or fileDeleted = true, sent by
\* ChatComponent.updateMessage, ChatComponent.deleteFile or an open
\* MessageDialog) is sent for a message whose senderId differs from the user
\* who is current when the update is sent, however switchUser interleaves.
C16_EditsOnlyByTheSender ==
    lastWrite.kind \in {"edit", "deleteFile"}
        => lastWrite.sender = lastWrite.user

\* C18: an addReaction update changes only the reactions field of the
\* stored message: content, replies, fileDeleted and deleted are after the
\* update what they were right before it, even if another session has
\* changed them since the reacting session got its snapshot.
C18_ReactionWritesOnlyReactions ==
    [][(lastWrite'.n # lastWrite.n /\ lastWrite'.kind = "reaction") =>
           /\ mdoc'.content = mdoc.content
           /\ mdoc'.replies = mdoc.replies
           /\ mdoc'.fileDeleted = mdoc.fileDeleted
           /\ mdoc'.deleted = mdoc.deleted]_vars

\* C19: once the stored fileDeleted flag is true it is true in every later
\* state, however probes, addReaction, edits and deleteFile of sessions
\* with older snapshots interleave.
C19_FileDeletedStaysTrue == [][mdoc.fileDeleted => mdoc'.fileDeleted]_vars

(* ------------------------------------------------------------------ *)
(* Properties of lastMessageTimestamp                                  *)
(* ------------------------------------------------------------------ *)

Max(S) == CHOOSE x \in S : \A y \in S : y <= x

\* the messages persisted in a chat
ChatMessages(ch) == {id \in DOMAIN msgs : msgs[id].chat = ch}

\* the chat document, if there is one, carries the timestamp of the newest
\* message of the chat, if there is one
LastTimestampIsLargest ==
    \A ch \in SendChats :
        (lastTs[ch] # <<>> /\ ChatMessages(ch) # {})
            => lastTs[ch][1] = Max({msgs[id].timestamp : id \in ChatMessages(ch)})

\* C17: whenever no send is in flight, a chat's lastMessageTimestamp is the
\* largest timestamp among the messages persisted in that chat (when the chat
\* has messages and its document exists), also when a send that uploads a
\* file and a later text send to the same chat overlap.  Runs in which a
\* read or write of lastMessageTimestamp was rejected are left aside.
C17_LastTimestampIsLargestWhenQuiet ==
    (Quiet /\ ~tsFailed) => LastTimestampIsLargest

\* the step ends the upload of session c's send without going on to the add
UploadRejected(c) == snd[c].pc = "upload" /\ snd'[c].pc = "done"

\* the step ends the add of session c's send without a new document
AddRejected(c) == snd[c].pc = "add" /\ snd'[c].pc = "done" /\ msgs' = msgs

\* C20: if the file upload or the message add is rejected, sendMessage
\* rejects and the store is left as it was: no message document is added,
\* the chat's lastMessageTimestamp is not updated and no reply counter is
\* incremented (neither update is started).
C20_FailedSendLeavesStoreUnchanged ==
    [][\A c \in Clients :
         /\ (UploadRejected(c) \/ AddRejected(c))
               => snd'[c].result = "rejected"
         /\ (snd[c].result = "pending" /\ snd'[c].result = "rejected") =>
               /\ msgs' = msgs
               /\ lastTs' = lastTs
               /\ snd'[c].msgId = None
               /\ snd'[c].tsPc = "off"
               /\ snd'[c].rcPc = "off"]_vars

\* a reply with a file to chat 1 has been rejected, and the store is what
\* it was at the start
C20_Witness ==
    \E c \in Clients :
        /\ snd[c].result = "rejected"
        /\ snd[c].file
        /\ snd[c].chat = 1
        /\ snd[c].replyTo = 1
        /\ DOMAIN msgs = {1}
        /\ msgs[1].replies = <<>>
        /\ lastTs[1] = <<1>>

(* ------------------------------------------------------------------ *)
(* Properties of the chat view's message input                         *)
(* ------------------------------------------------------------------ *)

\* the messages persisted by calls made after replyToMessage(m)
RepliesPostedTo(m) == {i \in DOMAIN posted : sent[posted[i].call].target = m}

\* C21: a message sent from the chat view after replyToMessage(m) is
\* persisted with replyTo = m's id, and m's replies counter has gone up by
\* one for each such message
C21_ReplyCarriesParentId ==
    \A m \in ThreadParents :
        /\ \A i \in RepliesPostedTo(m) : posted[i].replyTo = m
        /\ parentReplies[m] = Cardinality(RepliesPostedTo(m))

\* the promise of call i has just been settled in the given way
Settles(i, how) ==
    /\ i \in DOMAIN sent
    /\ sent[i].state = "pending"
    /\ sent'[i].state = how

C27_Step ==
    /\ \A i \in DOMAIN sent : Settles(i, "resolved") => input' = EmptyInput
    /\ \A i \in DOMAIN sent :
          Settles(i, "rejected") => input' = input /\ Len(sent') = Len(sent)
    /\ Len(sent') > Len(sent) => input' = input

\* C27: the input state (newMessage, selectedFile, fileUrl, fileName) is
\* cleared in the step in which the sendMessage promise resolves and not in
\* the step that makes the call; in the step in which the promise is
\* rejected the input state keeps its values and no further call is made
C27_InputClearedOnResolveOnly == [][C27_Step]_vars

\* a call has been rejected with a non-empty input left in place, and
\* another call has resolved
C27_Witness ==
    /\ \E i \in DOMAIN sent : sent[i].state = "rejected"
    /\ \E i \in DOMAIN sent : sent[i].state = "resolved"
    /\ input # EmptyInput

(* ------------------------------------------------------------------ *)
(* Properties of the thread sidebar                                    *)
(* ------------------------------------------------------------------ *)

\* every emission has been delivered
ThreadSettled == \A i \in DOMAIN subs : ~subs[i].outer /\ ~subs[i].inner

\* C22: when selectedMessageId is a message m of the chat open in the chat
\* view and all emissions are delivered, the sidebar's original message is
\* m and its list is the messages of that chat with replyTo = m's id, in
\* timestamp order, whatever other chats the user takes part in
C22_SidebarShowsThreadOfOpenChat ==
    (/\ selectedMessageId # None
     /\ selectedMessageId \in IdsOf(tmsgs[selectedChatId])
     /\ ThreadSettled)
    => /\ originalMessage = <<selectedMessageId>>
       /\ messagesShown = FilterReplies(tmsgs[selectedChatId],
                                        selectedMessageId)

\* C23: addReaction of the thread sidebar on a message goes to the document
\* (chat id, message id) that addReaction of the chat view goes to for the
\* same message while the same chat is open
C23_SidebarReactsOnSameDocument ==
    (/\ lastReaction.thread.made
     /\ lastReaction.chat.made
     /\ lastReaction.thread.id = lastReaction.chat.id
     /\ lastReaction.thread.open = lastReaction.chat.open)
    => lastReaction.thread.path = lastReaction.chat.path

C24_Step ==
    (/\ selectedMessageId # None
     /\ originalMessage = <<selectedMessageId>>
     /\ selectedMessageId' = selectedMessageId)
    => originalMessage' \in {<<>>, <<selectedMessageId>>}

\* C24: once the sidebar shows the original message of the selected
\* message, no later emission makes it show the original message of a
\* message selected before, as long as the selection stays
C24_NoRevertToEarlierThread == [][C24_Step]_vars

(* ------------------------------------------------------------------ *)
(* Properties of the replies counter                                   *)
(* ------------------------------------------------------------------ *)

\* C25: the stored replies counter of the message is at most the number
\* of persisted messages whose replyTo is its id, whatever the order of
\* sends, edits and reactions
C25_CounterNeverOverCounts == RepliesOrZero(mdoc) <= replyDocs

\* two replies are persisted and every counter update is done, an edit or
\* a reaction from an older snapshot has been stored, and the counter
\* shows fewer replies than there are
C25_Witness ==
    /\ replyDocs = 2
    /\ \A c \in Clients : rc[c].pc = "idle"
    /\ lastWrite.n > 0 /\ lastWrite.ok
    /\ RepliesOrZero(mdoc) < replyDocs

(* ------------------------------------------------------------------ *)
(* Properties of the sender of a message                               *)
(* ------------------------------------------------------------------ *)

\* C26: the senderId of the message a sendMessage call has persisted is
\* the user that was current in the session when the call was made, also
\* when switchUser was called while the upload or the add was pending
C26_SenderIsUserAtCall ==
    \A c \in Clients :
        snd[c].msgId # None => msgs[snd[c].msgId].senderId = snd[c].user

\* a call with a file has persisted its message, switchUser was called
\* while that call's upload or add was pending, and the other user is
\* current now
C26_Witness ==
    \E c \in Clients :
        /\ snd[c].msgId # None
        /\ snd[c].file
        /\ switched[c] = snd[c].ts
        /\ cur[c] # snd[c].user

(* ------------------------------------------------------------------ *)
(* Properties of the create-chat dialog and of its result              *)
(* ------------------------------------------------------------------ *)

SingleResult(r) ==
    r.given /\ r.type = "single" /\ Len(r.selectedUsers) = 1

GroupResult(r) ==
    /\ r.given
    /\ r.type = "group"
    /\ Len(r.selectedUsers) > 1
    /\ r.chatName # ""

\* C28: createChat is called for a single chat only for a result of type
\* 'single' with exactly one selected user, and for a group chat only for
\* a result of type 'group' with more than one user and a non-empty name;
\* for every other result, none included, no chat is created or selected
C28_ChatsOnlyForCompleteResults ==
    /\ \A i \in DOMAIN creates :
          /\ creates[i].type = "single" => SingleResult(results[creates[i].from])
          /\ creates[i].type = "group" => GroupResult(results[creates[i].from])
    /\ \A k \in DOMAIN results :
          ~(SingleResult(results[k]) \/ GroupResult(results[k]))
          => /\ \A i \in DOMAIN lookups : lookups[i].from # k
             /\ \A i \in DOMAIN creates : creates[i].from # k
             /\ \A i \in DOMAIN selections : selections[i].from # k

\* a single chat has been created and selected, and a result of type
\* 'single' with two selected users has been handled
C28_Witness ==
    /\ \E i \in DOMAIN selections :
          creates[selections[i].call].type = "single"
    /\ \E k \in DOMAIN results :
          /\ results[k].given
          /\ results[k].type = "single"
          /\ Len(results[k].selectedUsers) = 2

\* C29: while the dialog is open and newChatType is 'single', selectedUsers
\* holds at most one user id
C29_SingleTypeAtMostOneUser ==
    (dialogOpen /\ newChatType = "single") => Len(selectedUsers) <= 1

====
